---- MODULE Spec2Model ----
(***************************************************************************)
(* A model of the brandur-singularity site builder.                       *)
(*                                                                         *)
(* Two generations of the build executable are in the repository:         *)
(*   - main.go: the channel-based build.  main starts an error-draining   *)
(*     goroutine and Concurrency worker goroutines, feeds job closures    *)
(*     over a buffered channel and waits on a sync.WaitGroup.             *)
(*   - the pool-based build (main, runTasks, tasksForArticles,            *)
(*     ensureSymlink): main collects pool.Task values, runTasks hands     *)
(*     them to pool.NewPool/Run and reports the failures.  Package pool   *)
(*     is not part of the sources; Run is modelled from its description.  *)
(*                                                                         *)
(* prog says which program a behaviour is a run of:                       *)
(*   "main.go"   the channel-based build,                                 *)
(*   "build"     the pool-based build, from main,                         *)
(*   "runTasks"  a direct call of runTasks on a task list (TestRunTasks). *)
(*                                                                         *)
(* The worker goroutines of a build are anonymous and run the same loop:  *)
(* the model keeps how many of them wait for a job and, for every job a   *)
(* worker holds, how far that worker has got with it.                     *)
(***************************************************************************)
EXTENDS Integers, Sequences, FiniteSets, TLC

\* ---------------------------------------------------------------- bounds

\* Largest worker count explored (Concurrency is 10 in both builds).
MaxWorkers == 2
\* Capacity of the jobs channel explored (1000 in main.go), kept small so
\* that the producer blocks on a full channel.
JobsCap == 2
\* Number of directory entries a content directory may hold.
MaxFiles == 2
\* Longest task list handed to runTasks directly.
MaxTasks == 12
\* Most succeeding tasks in a task list handed to runTasks directly.
MaxOk == 3
\* Number of calls of ensureSymlink made in a row.
MaxCalls == 2

\* ------------------------------------------------------- program constants

\* runTasks stops logging once this many failures were logged.
MaxErrors == 10

\* File names a content directory may hold, in the order ReadDir returns
\* them (sorted by name).  A name is a sequence of characters.
FileNames ==
    << <<".", "g">>, <<"a", ".", "m">>, <<"b", ".", "m">>, <<"c">> >>

VARIABLES
    prog,         \* which program runs
    pc,           \* position of the main goroutine
    proc,         \* "running", or how the process ended
    concurrency,  \* number of workers (Concurrency / conf.Concurrency)
    tasks,        \* the jobs created so far, in creation order
    runs,         \* runs[i]: how many times job i was invoked
    Err,          \* Err[i]: outcome recorded for job i
    fatal,        \* a fatal startup step has failed
    listed,       \* the directory listings read so far, in the order read
    idle,         \* number of workers waiting for a job
    running,      \* the jobs some worker is executing
    results,      \* main.go: returned jobs, each with the value to send
    undone,       \* main.go: jobs whose value is sent, wg.Done() to come
    err,          \* main.go: main's err variable
    dpc,          \* main.go: position of the error-draining goroutine
    derr,         \* main.go: the value it received last
    jobs,         \* main.go: contents of the jobs channel
    wg,           \* main.go: the WaitGroup counter
    next,         \* main.go: index of the next job the send loop sends
    pending,      \* pool: tasks no worker has taken yet
    exited,       \* pool: number of workers that have terminated
    logged,       \* runTasks: the lines written to the error log
    verdict,      \* runTasks: its return value
    fs,           \* ensureSymlink: what each path of the file system holds
    writable,     \* ensureSymlink: dest's directory admits changes
    calls         \* ensureSymlink: the calls made so far, with their effect

sharedVars ==
    <<prog, pc, proc, concurrency, tasks, runs, Err, fatal, idle, running>>
chanVars == <<results, undone, err, dpc, derr, jobs, wg, next>>
poolVars == <<pending, exited, logged, verdict>>
linkVars == <<fs, writable, calls>>
dirVars == <<listed>>
vars == <<sharedVars, chanVars, poolVars, linkVars, dirVars>>

Outcomes == {"nil", "err"}
JobIds == 1..Len(tasks)

\* ----------------------------------------------------------- directories

\* The names of S, in directory order.
Listing(S) ==
    LET chosen == {FileNames[i] : i \in S}
    IN  SelectSeq(FileNames, LAMBDA n : n \in chosen)

\* What ReadDir may return for a content directory.
DirListings == {Listing(S) : S \in SUBSET (1..MaxFiles)}

\* One job per element of names, of the given kind.
JobsFor(kind, names) ==
    [i \in 1..Len(names) |-> [kind |-> kind, file |-> names[i]]]

Fixed(kind) == [kind |-> kind, file |-> <<>>]

\* What a call of the job may return.  The jobs of the builds touch the
\* file system and may fail or not; "return nil" and "return error" are the
\* closures of TestRunTasks.
Returns(job) ==
    CASE job.kind = "return nil" -> {"nil"}
      [] job.kind = "return error" -> {"err"}
      [] OTHER -> Outcomes

\* filepath.Ext(file): the suffix of the name from its last dot on, empty
\* when the name has no dot.
Ext(file) ==
    LET dots == {i \in 1..Len(file) : file[i] = "."}
    IN  IF dots = {} THEN <<>>
        ELSE SubSeq(file, CHOOSE i \in dots : \A k \in dots : k <= i, Len(file))

\* strings.TrimSuffix(file, filepath.Ext(file))
trimExtension(file) == SubSeq(file, 1, Len(file) - Len(Ext(file)))

\* A path is the sequence of its names below the working directory.
TargetDir == << <<"public">> >>
AssetsDir == << <<"assets">> >>
versionedAssetsDir == TargetDir \o AssetsDir \o << <<"Release">> >>

\* The paths the job creates, removes or writes.  linkImages links every
\* entry of the images directory, which it reads when it runs: it may
\* write the path of any entry name.
OutputPaths(job) ==
    CASE job.kind = "linkAssets" -> {TargetDir \o AssetsDir}
      [] job.kind = "renderArticle" ->
            {TargetDir \o <<trimExtension(job.file)>>}
      [] job.kind = "renderPage" ->
            {TargetDir \o <<trimExtension(job.file)>>}
      [] job.kind = "compileArticle" ->
            LET name == trimExtension(job.file)
                out == IF name = <<"index">>
                       THEN name \o <<".", "html">> ELSE name
            IN  {TargetDir \o <<out>>}
      [] job.kind = "linkFonts" -> {TargetDir \o AssetsDir \o << <<"fonts">> >>}
      [] job.kind = "linkImages" ->
            {TargetDir \o AssetsDir \o <<FileNames[i]>> : i \in 1..Len(FileNames)}
      [] job.kind = "CompileJavascripts" ->
            {versionedAssetsDir \o << <<"app.js">> >>}
      [] job.kind = "CompileStylesheets" ->
            {versionedAssetsDir \o << <<"app.css">> >>}
      [] OTHER -> {}

Zeros(n) == [i \in 1..n |-> 0]
Unset(n) == [i \in 1..n |-> "unset"]

\* ------------------------------------------------------- ensureSymlink

\* The paths of the file system: the two arguments of ensureSymlink and one
\* more path a link may point to.
Paths == {"source", "dest", "other"}

File == [kind |-> "file", target |-> ""]
Dir == [kind |-> "dir", target |-> ""]
Absent == [kind |-> "none", target |-> ""]
LinkTo(p) == [kind |-> "link", target |-> p]

\* What a path may hold.
Nodes == {Absent, File, Dir} \cup {LinkTo(p) : p \in Paths}

\* The builds do not call ensureSymlink in this model.
NoLinkVars ==
    /\ fs = [p \in Paths |-> Absent]
    /\ writable = TRUE
    /\ calls = <<>>

\* os.Stat(p), which follows symbolic links: nil ("ok"), ENOENT when the
\* chain ends at a missing path, ELOOP when it does not end.  A chain of
\* more links than there are paths has a cycle.
RECURSIVE Follow(_, _, _)
Follow(f, p, fuel) ==
    CASE f[p].kind = "none" -> "ENOENT"
      [] f[p].kind \in {"file", "dir"} -> "ok"
      [] OTHER -> IF fuel = 0 THEN "ELOOP" ELSE Follow(f, f[p].target, fuel - 1)

Stat(f, p) == Follow(f, p, Cardinality(Paths))

\* os.IsNotExist(err)
IsNotExist(e) == e = "ENOENT"

\* os.Readlink(p): the target of the link, or an error for what is no link.
Readlink(f, p) ==
    IF f[p].kind = "link"
    THEN [err |-> "ok", actual |-> f[p].target]
    ELSE [err |-> IF f[p].kind = "none" THEN "ENOENT" ELSE "EINVAL",
          actual |-> ""]

\* os.RemoveAll(p): removes what p holds (a link itself, not its target);
\* no error when p is missing.
RemoveAll(f, w, p) ==
    IF f[p].kind = "none" THEN [err |-> "ok", fs |-> f]
    ELSE IF ~w THEN [err |-> "EACCES", fs |-> f]
    ELSE [err |-> "ok", fs |-> [f EXCEPT ![p] = Absent]]

\* os.Symlink(source, p): creates p as a link holding the string source.
Symlink(f, w, source, p) ==
    IF f[p].kind # "none" THEN [err |-> "EEXIST", fs |-> f]
    ELSE IF ~w THEN [err |-> "EACCES", fs |-> f]
    ELSE [err |-> "ok", fs |-> [f EXCEPT ![p] = LinkTo(source)]]

\* The create: label of ensureSymlink, ops the calls made before it.
create(f, w, source, dest, ops) ==
    LET rm == RemoveAll(f, w, dest)
        ln == Symlink(rm.fs, w, source, dest)
    IN  IF rm.err # "ok"
        THEN [err |-> rm.err, fs |-> rm.fs, ops |-> ops \o <<"RemoveAll">>]
        ELSE [err |-> ln.err, fs |-> ln.fs,
              ops |-> ops \o <<"RemoveAll", "Symlink">>]

\* ensureSymlink, had it recreated the link without looking at it.
ensureSymlinkAlwaysCreates(f, w, source, dest) ==
    create(f, w, source, dest, <<"Stat">>)

\* ensureSymlink(source, dest) on file system f: the error returned ("ok"
\* for nil), the file system it leaves and the calls it made.
ensureSymlink(f, w, source, dest) ==
    LET st == Stat(f, dest)
        rl == Readlink(f, dest)
    IN  IF IsNotExist(st)
        THEN create(f, w, source, dest, <<"Stat">>)
        ELSE IF st # "ok"
        THEN [err |-> st, fs |-> f, ops |-> <<"Stat">>]
        ELSE IF rl.err # "ok"
        THEN [err |-> rl.err, fs |-> f, ops |-> <<"Stat", "Readlink">>]
        ELSE IF rl.actual = source
        THEN [err |-> "ok", fs |-> f, ops |-> <<"Stat", "Readlink">>]
        ELSE create(f, w, source, dest, <<"Stat", "Readlink">>)

\* Any file system, ensureSymlink("source", "dest") not called yet.
InitLink ==
    /\ prog = "ensureSymlink"
    /\ pc = "call"
    /\ proc = "running"
    /\ concurrency = 1
    /\ tasks = <<>>
    /\ runs = <<>>
    /\ Err = <<>>
    /\ fatal = FALSE
    /\ listed = <<>>
    /\ idle = 0
    /\ running = {}
    /\ results = {}
    /\ undone = {}
    /\ err = "nil"
    /\ dpc = "off"
    /\ derr = "nil"
    /\ jobs = <<>>
    /\ wg = 0
    /\ next = 0
    /\ pending = <<>>
    /\ exited = 0
    /\ logged = <<>>
    /\ verdict = "unset"
    /\ fs \in [Paths -> Nodes]
    /\ writable \in BOOLEAN
    /\ calls = <<>>

\* err = ensureSymlink(source, dest), at most MaxCalls times in a row; the
\* file system the call found is kept with its effect.
CallEnsureSymlink ==
    /\ prog = "ensureSymlink"
    /\ Len(calls) < MaxCalls
    /\ LET r == ensureSymlink(fs, writable, "source", "dest")
       IN  /\ fs' = r.fs
           /\ calls' = Append(calls, [before |-> fs, err |-> r.err,
                                     fs |-> r.fs, ops |-> r.ops])
    /\ UNCHANGED writable
    /\ UNCHANGED sharedVars
    /\ UNCHANGED chanVars
    /\ UNCHANGED poolVars
    /\ UNCHANGED dirVars

NextLink == CallEnsureSymlink

SpecLink == InitLink /\ [][NextLink]_vars

\* ------------------------------------------------------------- main.go

\* A send on the unbuffered errors channel: it completes when the draining
\* goroutine is at its receive, which then holds the value.
ErrorsSend(v) ==
    /\ dpc = "recv"
    /\ dpc' = "check"
    /\ derr' = v

\* JobsRecv, had the received job stayed in the channel.
JobsRecvKeeps(ch) == [job |-> Head(ch), rest |-> ch]

\* JobsRecv, had the channel handed out the newest job first.
JobsRecvNewest(ch) ==
    [job |-> ch[Len(ch)], rest |-> SubSeq(ch, 1, Len(ch) - 1)]

\* A receive from the jobs channel: the oldest job, and what stays queued.
JobsRecv(ch) == [job |-> Head(ch), rest |-> Tail(ch)]

\* WaitDone, had Wait returned with one job still accounted for.
WaitDoneEarly(counter) == counter <= 1

\* wg.Wait() returns when the counter is zero.
WaitDone(counter) == counter = 0

InitMain ==
    /\ prog = "main.go"
    /\ pc = "mkdir"
    /\ proc = "running"
    /\ concurrency \in 1..MaxWorkers
    /\ tasks = <<>>
    /\ runs = <<>>
    /\ Err = <<>>
    /\ fatal = FALSE
    /\ listed = <<>>
    /\ idle = 0
    /\ running = {}
    /\ results = {}
    /\ undone = {}
    /\ err = "nil"
    /\ dpc = "recv"
    /\ derr = "nil"
    /\ jobs = <<>>
    /\ wg = 0
    /\ next = 0
    /\ pending = <<>>
    /\ exited = 0
    /\ logged = <<>>
    /\ verdict = "unset"
    /\ NoLinkVars

MainRunning == prog = "main.go" /\ proc = "running"

\* err := os.MkdirAll(TargetDir, 0755)
MainMkdir ==
    /\ MainRunning /\ pc = "mkdir"
    /\ \E e \in Outcomes :
        /\ err' = e
        /\ fatal' = (e = "err")
    /\ pc' = "send_mkdir"
    /\ UNCHANGED <<prog, proc, concurrency, tasks, runs, Err, idle, running>>
    /\ UNCHANGED <<results, undone, dpc, derr, jobs, wg, next>>
    /\ UNCHANGED poolVars
    /\ UNCHANGED linkVars
    /\ UNCHANGED dirVars

\* errors <- err
MainSendMkdirErr ==
    /\ MainRunning /\ pc = "send_mkdir"
    /\ ErrorsSend(err)
    /\ pc' = "spawn"
    /\ UNCHANGED <<prog, proc, concurrency, tasks, runs, Err, fatal, idle, running>>
    /\ UNCHANGED <<results, undone, err, jobs, wg, next>>
    /\ UNCHANGED poolVars
    /\ UNCHANGED linkVars
    /\ UNCHANGED dirVars

\* MainSpawn, had the loop started one worker more than Concurrency.
MainSpawnOneMore ==
    /\ MainRunning /\ pc = "spawn"
    /\ idle' = concurrency + 1
    /\ pc' = "add_link"
    /\ UNCHANGED <<prog, proc, concurrency, tasks, runs, Err, fatal, running>>
    /\ UNCHANGED chanVars
    /\ UNCHANGED poolVars
    /\ UNCHANGED linkVars
    /\ UNCHANGED dirVars

\* for i := 0; i < Concurrency; i++ { go func() { for job := range jobs ...
MainSpawn ==
    /\ MainRunning /\ pc = "spawn"
    /\ idle' = concurrency
    /\ pc' = "add_link"
    /\ UNCHANGED <<prog, proc, concurrency, tasks, runs, Err, fatal, running>>
    /\ UNCHANGED chanVars
    /\ UNCHANGED poolVars
    /\ UNCHANGED linkVars
    /\ UNCHANGED dirVars

\* MainAddLink, had main sent the job without accounting for it.
MainAddLinkForgotten ==
    /\ MainRunning /\ pc = "add_link"
    /\ wg' = wg
    /\ pc' = "send_link"
    /\ UNCHANGED <<prog, proc, concurrency, tasks, runs, Err, fatal, idle, running>>
    /\ UNCHANGED <<results, undone, err, dpc, derr, jobs, next>>
    /\ UNCHANGED poolVars
    /\ UNCHANGED linkVars
    /\ UNCHANGED dirVars

\* wg.Add(1)
MainAddLink ==
    /\ MainRunning /\ pc = "add_link"
    /\ wg' = wg + 1
    /\ pc' = "send_link"
    /\ UNCHANGED <<prog, proc, concurrency, tasks, runs, Err, fatal, idle, running>>
    /\ UNCHANGED <<results, undone, err, dpc, derr, jobs, next>>
    /\ UNCHANGED poolVars
    /\ UNCHANGED linkVars
    /\ UNCHANGED dirVars

\* jobs <- func() error { return linkAssets() }
MainSendLink ==
    /\ MainRunning /\ pc = "send_link"
    /\ Len(jobs) < JobsCap
    /\ tasks' = Append(tasks, Fixed("linkAssets"))
    /\ runs' = Append(runs, 0)
    /\ Err' = Append(Err, "unset")
    /\ jobs' = Append(jobs, Len(tasks) + 1)
    /\ pc' = "gen_articles"
    /\ UNCHANGED <<prog, proc, concurrency, fatal, idle, running>>
    /\ UNCHANGED <<results, undone, err, dpc, derr, wg, next>>
    /\ UNCHANGED poolVars
    /\ UNCHANGED linkVars
    /\ UNCHANGED dirVars

\* generateArticleJobs / generatePageJobs: one job per directory entry, or
\* the error of ReadDir and no job.
generateJobs(kind) ==
    \/ /\ err' = "err"
       /\ fatal' = TRUE
       /\ UNCHANGED <<tasks, runs, Err, listed>>
    \/ \E files \in DirListings :
        /\ err' = "nil"
        /\ listed' = Append(listed, files)
        /\ tasks' = tasks \o JobsFor(kind, files)
        /\ runs' = runs \o Zeros(Len(files))
        /\ Err' = Err \o Unset(Len(files))
        /\ UNCHANGED fatal

\* articleJobs, err := generateArticleJobs()
MainGenArticles ==
    /\ MainRunning /\ pc = "gen_articles"
    /\ generateJobs("renderArticle")
    /\ pc' = "send_article_err"
    /\ UNCHANGED <<prog, proc, concurrency, idle, running>>
    /\ UNCHANGED <<results, undone, dpc, derr, jobs, wg, next>>
    /\ UNCHANGED poolVars
    /\ UNCHANGED linkVars

\* errors <- err
MainSendArticleErr ==
    /\ MainRunning /\ pc = "send_article_err"
    /\ ErrorsSend(err)
    /\ pc' = "gen_pages"
    /\ UNCHANGED <<prog, proc, concurrency, tasks, runs, Err, fatal, idle, running>>
    /\ UNCHANGED <<results, undone, err, jobs, wg, next>>
    /\ UNCHANGED poolVars
    /\ UNCHANGED linkVars
    /\ UNCHANGED dirVars

\* pageJobs, err := generatePageJobs()
MainGenPages ==
    /\ MainRunning /\ pc = "gen_pages"
    /\ generateJobs("renderPage")
    /\ pc' = "send_page_err"
    /\ UNCHANGED <<prog, proc, concurrency, idle, running>>
    /\ UNCHANGED <<results, undone, dpc, derr, jobs, wg, next>>
    /\ UNCHANGED poolVars
    /\ UNCHANGED linkVars

\* errors <- err
MainSendPageErr ==
    /\ MainRunning /\ pc = "send_page_err"
    /\ ErrorsSend(err)
    /\ pc' = "add_jobs"
    /\ UNCHANGED <<prog, proc, concurrency, tasks, runs, Err, fatal, idle, running>>
    /\ UNCHANGED <<results, undone, err, jobs, wg, next>>
    /\ UNCHANGED poolVars
    /\ UNCHANGED linkVars
    /\ UNCHANGED dirVars

\* wg.Add(len(articleJobs) + len(pageJobs)); the send loop starts at the
\* first article job, or is over at once when there is none.
MainAddJobs ==
    /\ MainRunning /\ pc = "add_jobs"
    /\ wg' = wg + (Len(tasks) - 1)
    /\ next' = 2
    /\ pc' = IF Len(tasks) >= 2 THEN "send_jobs" ELSE "wait"
    /\ UNCHANGED <<prog, proc, concurrency, tasks, runs, Err, fatal, idle, running>>
    /\ UNCHANGED <<results, undone, err, dpc, derr, jobs>>
    /\ UNCHANGED poolVars
    /\ UNCHANGED linkVars
    /\ UNCHANGED dirVars

\* for _, job := range append(articleJobs, pageJobs...) { jobs <- job }
MainSendJob ==
    /\ MainRunning /\ pc = "send_jobs"
    /\ Len(jobs) < JobsCap
    /\ jobs' = Append(jobs, next)
    /\ next' = next + 1
    /\ pc' = IF next + 1 <= Len(tasks) THEN "send_jobs" ELSE "wait"
    /\ UNCHANGED <<prog, proc, concurrency, tasks, runs, Err, fatal, idle, running>>
    /\ UNCHANGED <<results, undone, err, dpc, derr, wg>>
    /\ UNCHANGED poolVars
    /\ UNCHANGED linkVars
    /\ UNCHANGED dirVars

\* wg.Wait(), and main returns: the process exits with status 0.
MainWait ==
    /\ MainRunning /\ pc = "wait"
    /\ WaitDone(wg)
    /\ pc' = "returned"
    /\ proc' = "exit0"
    /\ UNCHANGED <<prog, concurrency, tasks, runs, Err, fatal, idle, running>>
    /\ UNCHANGED chanVars
    /\ UNCHANGED poolVars
    /\ UNCHANGED linkVars
    /\ UNCHANGED dirVars

\* for job := range jobs: a waiting worker takes the oldest job and calls it.
WorkerRecv ==
    /\ MainRunning
    /\ idle > 0
    /\ jobs # <<>>
    /\ LET r == JobsRecv(jobs)
       IN  /\ jobs' = r.rest
           /\ running' = running \cup {r.job}
           /\ runs' = [runs EXCEPT ![r.job] = @ + 1]
    /\ idle' = idle - 1
    /\ UNCHANGED <<prog, pc, proc, concurrency, tasks, Err, fatal>>
    /\ UNCHANGED <<results, undone, err, dpc, derr, wg, next>>
    /\ UNCHANGED poolVars
    /\ UNCHANGED linkVars
    /\ UNCHANGED dirVars

\* job() returns nil or an error.
WorkerJobReturn(j) ==
    /\ MainRunning
    /\ j \in running
    /\ running' = running \ {j}
    /\ \E r \in Returns(tasks[j]) :
        results' = results \cup {[job |-> j, res |-> r]}
    /\ UNCHANGED <<prog, pc, proc, concurrency, tasks, runs, Err, fatal, idle>>
    /\ UNCHANGED <<undone, err, dpc, derr, jobs, wg, next>>
    /\ UNCHANGED poolVars
    /\ UNCHANGED linkVars
    /\ UNCHANGED dirVars

\* errors <- job()
WorkerSendErr(x) ==
    /\ MainRunning
    /\ x \in results
    /\ ErrorsSend(x.res)
    /\ Err' = [Err EXCEPT ![x.job] = x.res]
    /\ results' = results \ {x}
    /\ undone' = undone \cup {x.job}
    /\ UNCHANGED <<prog, pc, proc, concurrency, tasks, runs, fatal, idle, running>>
    /\ UNCHANGED <<err, jobs, wg, next>>
    /\ UNCHANGED poolVars
    /\ UNCHANGED linkVars
    /\ UNCHANGED dirVars

\* wg.Done(), which panics on a negative counter; the worker is back at
\* its receive.
WorkerDone(j) ==
    /\ MainRunning
    /\ j \in undone
    /\ undone' = undone \ {j}
    /\ wg' = wg - 1
    /\ proc' = IF wg - 1 < 0 THEN "panic" ELSE proc
    /\ idle' = idle + 1
    /\ UNCHANGED <<prog, pc, concurrency, tasks, runs, Err, fatal, running>>
    /\ UNCHANGED <<results, err, dpc, derr, jobs, next>>
    /\ UNCHANGED poolVars
    /\ UNCHANGED linkVars
    /\ UNCHANGED dirVars

\* for err := range errors { if err != nil { panic(err) } }
DrainCheck ==
    /\ MainRunning /\ dpc = "check"
    /\ IF derr # "nil"
       THEN proc' = "panic" /\ dpc' = "panic"
       ELSE proc' = proc /\ dpc' = "recv"
    /\ UNCHANGED <<prog, pc, concurrency, tasks, runs, Err, fatal, idle, running>>
    /\ UNCHANGED <<results, undone, err, derr, jobs, wg, next>>
    /\ UNCHANGED poolVars
    /\ UNCHANGED linkVars
    /\ UNCHANGED dirVars

NextMain ==
    \/ MainMkdir
    \/ MainSendMkdirErr
    \/ MainSpawn
    \/ MainAddLink
    \/ MainSendLink
    \/ MainGenArticles
    \/ MainSendArticleErr
    \/ MainGenPages
    \/ MainSendPageErr
    \/ MainAddJobs
    \/ MainSendJob
    \/ MainWait
    \/ WorkerRecv
    \/ \E j \in running : WorkerJobReturn(j)
    \/ \E x \in results : WorkerSendErr(x)
    \/ \E j \in undone : WorkerDone(j)
    \/ DrainCheck

SpecMain == InitMain /\ [][NextMain]_vars

\* job() panics instead of returning.  The worker goroutine has no recover,
\* so the Go runtime ends the process; the job never returns.
WorkerJobFault(j) ==
    /\ MainRunning
    /\ j \in running
    /\ proc' = "fault"
    /\ UNCHANGED <<prog, pc, concurrency, tasks, runs, Err, fatal, idle, running>>
    /\ UNCHANGED chanVars
    /\ UNCHANGED poolVars
    /\ UNCHANGED linkVars
    /\ UNCHANGED dirVars

\* main.go with jobs that may panic.
NextMainFault ==
    \/ NextMain
    \/ \E j \in running : WorkerJobFault(j)

SpecMainFault == InitMain /\ [][NextMainFault]_vars

\* ------------------------------------------------------ pool-based build

isHidden(file) == Len(file) >= 1 /\ file[1] = "."

\* tasksForArticles: one task per entry of the articles directory that is
\* not hidden, in directory order.
tasksForArticles(files) ==
    JobsFor("compileArticle", SelectSeq(files, LAMBDA n : ~isHidden(n)))

\* The tasks main creates before it lists the articles.
FixedTasks ==
    << Fixed("linkFonts"), Fixed("linkImages"),
       Fixed("CompileJavascripts"), Fixed("CompileStylesheets") >>

\* pool.HasErrors: at least one task failed.
HasErrors(errs) == \E i \in 1..Len(errs) : errs[i] = "err"

\* LogErrors, had the cap been tested with > instead of >=.
RECURSIVE LogErrorsLateCap(_, _, _, _)
LogErrorsLateCap(errs, i, numErrors, out) ==
    IF i > Len(errs)
    THEN out
    ELSE LET failed == errs[i] = "err"
             lines == IF failed THEN Append(out, <<"error", i>>) ELSE out
             n == IF failed THEN numErrors + 1 ELSE numErrors
         IN  IF n > MaxErrors
             THEN Append(lines, <<"Too many errors.">>)
             ELSE LogErrorsLateCap(errs, i + 1, n, lines)

\* LogErrors, had the loop gone on after the marker (no break).
RECURSIVE LogErrorsNoBreak(_, _, _, _)
LogErrorsNoBreak(errs, i, numErrors, out) ==
    IF i > Len(errs)
    THEN out
    ELSE LET failed == errs[i] = "err"
             lines == IF failed THEN Append(out, <<"error", i>>) ELSE out
             n == IF failed THEN numErrors + 1 ELSE numErrors
         IN  IF n >= MaxErrors
             THEN LogErrorsNoBreak(errs, i + 1, n,
                                   Append(lines, <<"Too many errors.">>))
             ELSE LogErrorsNoBreak(errs, i + 1, n, lines)

\* LogErrors, had the loop stopped at the cap without the marker.
RECURSIVE LogErrorsSilentCap(_, _, _, _)
LogErrorsSilentCap(errs, i, numErrors, out) ==
    IF i > Len(errs)
    THEN out
    ELSE LET failed == errs[i] = "err"
             lines == IF failed THEN Append(out, <<"error", i>>) ELSE out
             n == IF failed THEN numErrors + 1 ELSE numErrors
         IN  IF n >= MaxErrors
             THEN lines
             ELSE LogErrorsSilentCap(errs, i + 1, n, lines)

\* The loop of runTasks over p.Tasks from task i on, numErrors failures
\* logged so far, out the lines written so far.
RECURSIVE LogErrors(_, _, _, _)
LogErrors(errs, i, numErrors, out) ==
    IF i > Len(errs)
    THEN out
    ELSE LET failed == errs[i] = "err"
             lines == IF failed THEN Append(out, <<"error", i>>) ELSE out
             n == IF failed THEN numErrors + 1 ELSE numErrors
         IN  IF n >= MaxErrors
             THEN Append(lines, <<"Too many errors.">>)
             ELSE LogErrors(errs, i + 1, n, lines)

\* Verdict, had the negation been forgotten.
VerdictNotNegated(errs) == HasErrors(errs)

\* The return value of runTasks.
Verdict(errs) == ~HasErrors(errs)

InitPoolVars ==
    /\ proc = "running"
    /\ concurrency \in 1..MaxWorkers
    /\ fatal = FALSE
    /\ listed = <<>>
    /\ idle = 0
    /\ running = {}
    /\ results = {}
    /\ undone = {}
    /\ err = "nil"
    /\ dpc = "off"
    /\ derr = "nil"
    /\ jobs = <<>>
    /\ wg = 0
    /\ next = 0
    /\ pending = <<>>
    /\ exited = 0
    /\ logged = <<>>
    /\ verdict = "unset"
    /\ NoLinkVars

\* The pool-based build, at the start of main.
InitBuild ==
    /\ prog = "build"
    /\ pc = "decode"
    /\ tasks = <<>>
    /\ runs = <<>>
    /\ Err = <<>>
    /\ InitPoolVars

\* A call of runTasks on a list of tasks, as TestRunTasks makes it.
InitRunTasks ==
    /\ prog = "runTasks"
    /\ pc = "runTasks"
    /\ \E n \in 0..MaxTasks : \E ok \in SUBSET (1..n) :
        /\ Cardinality(ok) <= MaxOk
        /\ tasks = [i \in 1..n |->
                     Fixed(IF i \in ok THEN "return nil" ELSE "return error")]
        /\ runs = Zeros(n)
        /\ Err = Unset(n)
    /\ InitPoolVars

PoolRunning == prog \in {"build", "runTasks"} /\ proc = "running"

\* log.Fatal(err): the process exits with status 1.
Fatal ==
    /\ fatal' = TRUE
    /\ proc' = "exit1"
    /\ UNCHANGED pc

\* err := envdecode.Decode(&conf)
BuildDecode ==
    /\ prog = "build" /\ proc = "running" /\ pc = "decode"
    /\ \/ Fatal
       \/ pc' = "mkdirs" /\ UNCHANGED <<fatal, proc>>
    /\ UNCHANGED <<prog, concurrency, tasks, runs, Err, idle, running>>
    /\ UNCHANGED chanVars
    /\ UNCHANGED poolVars
    /\ UNCHANGED linkVars
    /\ UNCHANGED dirVars

\* err = singularity.CreateOutputDirs(singularity.TargetDir)
BuildCreateOutputDirs ==
    /\ prog = "build" /\ proc = "running" /\ pc = "mkdirs"
    /\ \/ Fatal
       \/ pc' = "tasks" /\ UNCHANGED <<fatal, proc>>
    /\ UNCHANGED <<prog, concurrency, tasks, runs, Err, idle, running>>
    /\ UNCHANGED chanVars
    /\ UNCHANGED poolVars
    /\ UNCHANGED linkVars
    /\ UNCHANGED dirVars

\* tasks = append(tasks, pool.NewTask(...)), four times
BuildFixedTasks ==
    /\ prog = "build" /\ proc = "running" /\ pc = "tasks"
    /\ tasks' = tasks \o FixedTasks
    /\ runs' = runs \o Zeros(Len(FixedTasks))
    /\ Err' = Err \o Unset(Len(FixedTasks))
    /\ pc' = "articles"
    /\ UNCHANGED <<prog, proc, concurrency, fatal, idle, running>>
    /\ UNCHANGED chanVars
    /\ UNCHANGED poolVars
    /\ UNCHANGED linkVars
    /\ UNCHANGED dirVars

\* articleTasks, err := tasksForArticles(); tasks = append(tasks, ...)
BuildArticleTasks ==
    /\ prog = "build" /\ proc = "running" /\ pc = "articles"
    /\ \/ Fatal /\ UNCHANGED <<tasks, runs, Err, listed>>
       \/ \E files \in DirListings :
            LET new == tasksForArticles(files)
            IN  /\ listed' = Append(listed, files)
                /\ tasks' = tasks \o new
                /\ runs' = runs \o Zeros(Len(new))
                /\ Err' = Err \o Unset(Len(new))
                /\ pc' = "runTasks"
                /\ UNCHANGED <<fatal, proc>>
    /\ UNCHANGED <<prog, concurrency, idle, running>>
    /\ UNCHANGED chanVars
    /\ UNCHANGED poolVars
    /\ UNCHANGED linkVars

\* p := pool.NewPool(tasks, conf.Concurrency); p.Run() starts its workers.
PoolRunStart ==
    /\ PoolRunning /\ pc = "runTasks"
    /\ pending' = [i \in 1..Len(tasks) |-> i]
    /\ idle' = concurrency
    /\ pc' = "Run"
    /\ UNCHANGED <<prog, proc, concurrency, tasks, runs, Err, fatal, running>>
    /\ UNCHANGED chanVars
    /\ UNCHANGED <<exited, logged, verdict>>
    /\ UNCHANGED linkVars
    /\ UNCHANGED dirVars

\* A worker takes the next pending task and starts its job.
PoolWorkerTake ==
    /\ PoolRunning /\ pc = "Run"
    /\ idle > 0
    /\ pending # <<>>
    /\ pending' = Tail(pending)
    /\ running' = running \cup {Head(pending)}
    /\ runs' = [runs EXCEPT ![Head(pending)] = @ + 1]
    /\ idle' = idle - 1
    /\ UNCHANGED <<prog, pc, proc, concurrency, tasks, Err, fatal>>
    /\ UNCHANGED chanVars
    /\ UNCHANGED <<exited, logged, verdict>>
    /\ UNCHANGED linkVars
    /\ UNCHANGED dirVars

\* The job returns; its outcome is stored on its task.
PoolWorkerFinish(j) ==
    /\ PoolRunning /\ pc = "Run"
    /\ j \in running
    /\ \E r \in Returns(tasks[j]) : Err' = [Err EXCEPT ![j] = r]
    /\ running' = running \ {j}
    /\ idle' = idle + 1
    /\ UNCHANGED <<prog, pc, proc, concurrency, tasks, runs, fatal>>
    /\ UNCHANGED chanVars
    /\ UNCHANGED poolVars
    /\ UNCHANGED linkVars
    /\ UNCHANGED dirVars

\* A worker that finds no task left terminates.
PoolWorkerExit ==
    /\ PoolRunning /\ pc = "Run"
    /\ idle > 0
    /\ pending = <<>>
    /\ idle' = idle - 1
    /\ exited' = exited + 1
    /\ UNCHANGED <<prog, pc, proc, concurrency, tasks, runs, Err, fatal, running>>
    /\ UNCHANGED chanVars
    /\ UNCHANGED <<pending, logged, verdict>>
    /\ UNCHANGED linkVars
    /\ UNCHANGED dirVars

\* Run returns once every worker has terminated.
PoolRunReturn ==
    /\ PoolRunning /\ pc = "Run"
    /\ exited = concurrency
    /\ pc' = "report"
    /\ UNCHANGED <<prog, proc, concurrency, tasks, runs, Err, fatal, idle, running>>
    /\ UNCHANGED chanVars
    /\ UNCHANGED poolVars
    /\ UNCHANGED linkVars
    /\ UNCHANGED dirVars

\* runTasks after p.Run(): logs the failures and returns !p.HasErrors().
runTasksReport ==
    /\ PoolRunning /\ pc = "report"
    /\ logged' = LogErrors(Err, 1, 0, <<>>)
    /\ verdict' = Verdict(Err)
    /\ pc' = "reported"
    /\ UNCHANGED <<prog, proc, concurrency, tasks, runs, Err, fatal, idle, running>>
    /\ UNCHANGED chanVars
    /\ UNCHANGED <<pending, exited>>
    /\ UNCHANGED linkVars
    /\ UNCHANGED dirVars

\* if !runTasks(tasks) { os.Exit(1) }, else main returns.
BuildExit ==
    /\ prog = "build" /\ proc = "running" /\ pc = "reported"
    /\ proc' = IF verdict THEN "exit0" ELSE "exit1"
    /\ pc' = "returned"
    /\ UNCHANGED <<prog, concurrency, tasks, runs, Err, fatal, idle, running>>
    /\ UNCHANGED chanVars
    /\ UNCHANGED poolVars
    /\ UNCHANGED linkVars
    /\ UNCHANGED dirVars

NextBuild ==
    \/ BuildDecode
    \/ BuildCreateOutputDirs
    \/ BuildFixedTasks
    \/ BuildArticleTasks
    \/ PoolRunStart
    \/ PoolWorkerTake
    \/ \E j \in running : PoolWorkerFinish(j)
    \/ PoolWorkerExit
    \/ PoolRunReturn
    \/ runTasksReport
    \/ BuildExit

SpecBuild == (InitBuild \/ InitRunTasks) /\ [][NextBuild]_vars

\* Both builds.
Init == InitMain \/ InitBuild \/ InitRunTasks
Next == NextMain \/ NextBuild
Spec == Init /\ [][Next]_vars

\* ------------------------------------------------------------ fairness

\* The Go scheduler runs every goroutine that can take a step: main, the
\* error-draining goroutine and the workers.  Senders blocked on a channel
\* are served in turn, so a worker's send is not passed over for ever.
MainStep ==
    \/ MainMkdir \/ MainSendMkdirErr \/ MainSpawn \/ MainAddLink
    \/ MainSendLink \/ MainGenArticles \/ MainSendArticleErr
    \/ MainGenPages \/ MainSendPageErr \/ MainAddJobs \/ MainSendJob
    \/ MainWait

FairSpecMain ==
    /\ SpecMain
    /\ WF_vars(MainStep)
    /\ WF_vars(DrainCheck)
    /\ WF_vars(WorkerRecv)
    /\ WF_vars(\E j \in running : WorkerJobReturn(j))
    /\ SF_vars(\E x \in results : WorkerSendErr(x))
    /\ WF_vars(\E j \in undone : WorkerDone(j))

\* The same scheduling when jobs may panic; nothing forces a job to panic.
FairSpecMainFault ==
    /\ SpecMainFault
    /\ WF_vars(MainStep)
    /\ WF_vars(DrainCheck)
    /\ WF_vars(WorkerRecv)
    /\ WF_vars(\E j \in running : WorkerJobReturn(j))
    /\ SF_vars(\E x \in results : WorkerSendErr(x))
    /\ WF_vars(\E j \in undone : WorkerDone(j))

\* -------------------------------------------------------------- claims

\* The caller is past the barrier: wg.Wait() has returned in main.go,
\* p.Run() has returned in runTasks.
RunEnded == pc \in {"returned", "report", "reported"}

\* The jobs handed over for execution: sent on the jobs channel in main.go
\* (job 1 is created as it is sent, the others are sent in order), wrapped
\* in the pool whose Run was called in runTasks.
Submitted ==
    IF prog = "main.go"
    THEN {j \in JobIds : j = 1 \/ j < next}
    ELSE IF pc \in {"Run", "report", "reported", "returned"}
    THEN JobIds
    ELSE {}

\* The jobs whose recorded outcome is a failure.
Failed == {j \in JobIds : Err[j] = "err"}

\* The failed jobs in submission order.
FailedSeq == SelectSeq([i \in 1..Len(Err) |-> i], LAMBDA i : Err[i] = "err")

Min(a, b) == IF a <= b THEN a ELSE b

\* C1: no job is ever invoked twice, and once the run has ended (the caller
\* is past the barrier) every submitted job has been invoked exactly once.
C1_ExactlyOnce ==
    /\ \A j \in JobIds : runs[j] <= 1
    /\ RunEnded => (Submitted = JobIds /\ \A j \in Submitted : runs[j] = 1)

\* A run of main.go with both workers and three jobs has ended.
C1_Witness ==
    /\ prog = "main.go" /\ pc = "returned"
    /\ concurrency = 2 /\ Len(tasks) >= 3

\* C2: in every state where the caller is past the barrier, no job is
\* still held by a worker and every job's outcome has been recorded
\* (stored on its task, or delivered on the errors channel).
C2_BarrierAfterOutcomes ==
    RunEnded =>
        /\ running = {} /\ results = {} /\ undone = {}
        /\ \A j \in JobIds : Err[j] # "unset"

\* p.Run() has returned in the pool-based build, a failure among the
\* outcomes.
C2_Witness ==
    /\ prog = "build" /\ pc = "report"
    /\ Len(tasks) >= 5 /\ Failed # {}

\* C3, as claimed: whatever the jobs return, the run eventually returns to
\* its caller (startup failures aside).
C3_RunReturns == <>(RunEnded \/ fatal)

\* C4, as claimed: once a job has returned an error, the process still does
\* not end before every submitted job has been executed and has its outcome
\* recorded.
C4_FailureDoesNotStopOthers ==
    (proc # "running" /\ ~fatal /\ Failed # {}) =>
        \A j \in Submitted : runs[j] = 1 /\ Err[j] # "unset"

\* C5: runTasks returns true exactly when no task failed: no recorded
\* outcome is a failure and, for the closures of a direct call, no task's
\* function returns an error.
C5_VerdictIffNoFailure ==
    (prog \in {"build", "runTasks"} /\ pc \in {"reported", "returned"}) =>
        /\ verdict \in BOOLEAN
        /\ verdict <=> (Failed = {})
        /\ prog = "runTasks" =>
             (verdict <=> \A j \in JobIds : tasks[j].kind # "return error")

\* runTasks has returned false on a list of three tasks of which exactly
\* the last failed.
C5_Witness ==
    /\ prog = "runTasks" /\ pc = "reported"
    /\ Len(tasks) = 3 /\ Failed = {3}
    /\ verdict = FALSE

\* C6, as claimed: the process never exits with status 0 after a job has
\* returned an error.
C6_NoSuccessAfterFailure ==
    proc = "exit0" => Failed = {}

\* C7: with more than MaxErrors failed tasks, runTasks writes exactly
\* MaxErrors failure lines, then the marker as the one last line, and
\* returns false.
C7_TooManyErrors ==
    (pc \in {"reported", "returned"} /\ Cardinality(Failed) > MaxErrors) =>
        /\ Len(logged) = MaxErrors + 1
        /\ \A k \in 1..MaxErrors : logged[k][1] = "error"
        /\ logged[MaxErrors + 1] = <<"Too many errors.">>
        /\ verdict = FALSE

\* runTasks has reported on a list with more than MaxErrors failures and a
\* success.
C7_Witness ==
    /\ pc = "reported"
    /\ Cardinality(Failed) > MaxErrors
    /\ \E j \in JobIds : Err[j] = "nil"

\* C8: after the run there is one outcome per submitted task, stored at the
\* task's own position, and the failure lines written are those of the
\* first min(F, MaxErrors) failed tasks in submission order, whatever the
\* worker count and the order in which the jobs completed.
C8_OrderedReport ==
    (prog \in {"build", "runTasks"} /\ pc \in {"reported", "returned"}) =>
        /\ Len(Err) = Len(tasks)
        /\ prog = "runTasks" =>
             \A j \in JobIds : (Err[j] = "err") <=> (tasks[j].kind = "return error")
        /\ SelectSeq(logged, LAMBDA l : l[1] = "error")
             = [k \in 1..Min(Len(FailedSeq), MaxErrors) |->
                  <<"error", FailedSeq[k]>>]

\* runTasks has reported, with two workers, on a list whose first task
\* succeeded and that has more than MaxErrors failures.
C8_Witness ==
    /\ prog = "runTasks" /\ pc = "reported" /\ concurrency = 2
    /\ Len(tasks) >= 2 /\ Err[1] = "nil"
    /\ Cardinality(Failed) > MaxErrors

\* C9, as claimed: once a fatal startup step has failed, no job has been
\* started.
C9_NoJobAfterFatal ==
    fatal => \A j \in JobIds : runs[j] = 0

\* C10, as claimed: when the first call of ensureSymlink(source, dest)
\* succeeds, a second call in a row succeeds too and leaves the file system
\* as the first call left it.
C10_Idempotent ==
    (Len(calls) >= 2 /\ calls[1].err = "ok") =>
        /\ calls[2].err = "ok"
        /\ calls[2].fs = calls[1].fs

\* The states of dest the claim of C11 names: missing, a symbolic link to
\* source, or a symbolic link elsewhere whose target exists or does not.
DestMissingOrLink(f) ==
    \/ f["dest"].kind = "none"
    \/ /\ f["dest"].kind = "link"
       /\ \/ f["dest"].target = "source"
          \/ Stat(f, f["dest"].target) \in {"ok", "ENOENT"}

\* C11, as claimed: when dest is missing or is a symbolic link (to source,
\* or elsewhere to an existing target or to none) and its directory admits
\* changes, ensureSymlink returns no error; and whenever it returns no
\* error, dest is a symbolic link whose target is source.
C11_EnsuresLink ==
    \A k \in 1..Len(calls) :
        /\ (writable /\ DestMissingOrLink(calls[k].before)) =>
             calls[k].err = "ok"
        /\ calls[k].err = "ok" => calls[k].fs["dest"] = LinkTo("source")

\* The kind of job made from the entries of the d-th directory read:
\* articles then pages in main.go, articles in the pool-based build.
KindOf(d) ==
    IF prog = "main.go"
    THEN IF d = 1 THEN "renderArticle" ELSE "renderPage"
    ELSE "compileArticle"

\* The jobs of the given kind made for the entry called name.
JobsOf(kind, name) ==
    {j \in JobIds : tasks[j].kind = kind /\ tasks[j].file = name}

\* C12, as claimed: for every directory read, the job list holds exactly
\* one job for each entry whose name does not start with "." and none for
\* an entry whose name does, in tasksForArticles, generateArticleJobs and
\* generatePageJobs alike.
C12_HiddenExcluded ==
    \A d \in 1..Len(listed) : \A i \in 1..Len(listed[d]) :
        Cardinality(JobsOf(KindOf(d), listed[d][i]))
            = IF isHidden(listed[d][i]) THEN 0 ELSE 1

\* C13, as claimed: when a job's operation panics, the fault becomes that
\* job's failure outcome, the worker goes on with the remaining jobs and
\* the barrier is released: the run returns.
C13_FaultIsFailure == (proc = "fault") ~> RunEnded

\* C14: with one worker, at most one job is executing at any time, and a
\* job that has started finds every job submitted before it started and
\* finished: the jobs run one after the other in submission order.
C14_Sequential ==
    concurrency = 1 =>
        /\ Cardinality(running) <= 1
        /\ \A i, j \in JobIds :
             (i < j /\ runs[j] > 0) => (runs[i] > 0 /\ i \notin running)

\* A one-worker run of main.go is executing its third job.
C14_Witness ==
    /\ prog = "main.go" /\ concurrency = 1
    /\ running = {3}

\* C15: in every state the number of jobs that are executing is at most the
\* worker count; more precisely the workers waiting, executing a job,
\* delivering its value or terminated are never more than Concurrency.
C15_BoundedParallelism ==
    /\ Cardinality(running) <= concurrency
    /\ idle + Cardinality(running) + Cardinality(results)
          + Cardinality(undone) + exited <= concurrency

\* Both workers of a two-worker run of main.go are executing a job while a
\* third job waits in the channel.
C15_Witness ==
    /\ prog = "main.go" /\ concurrency = 2
    /\ Cardinality(running) = 2
    /\ jobs # <<>>

\* C16, as claimed: when the run of main.go returns, every worker has left
\* its receive loop; none is still blocked waiting for a job.
C16_WorkersExit ==
    (prog = "main.go" /\ pc = "returned") => idle = 0

\* C17, as claimed: distinct jobs of a build write distinct paths, so no
\* two jobs that are executing at the same time write the same path (the
\* jobs of hidden entries, which C12 is about, left aside).
C17_DistinctOutputs ==
    \A i, j \in running :
        (i # j /\ ~isHidden(tasks[i].file) /\ ~isHidden(tasks[j].file)) =>
            OutputPaths(tasks[i]) \cap OutputPaths(tasks[j]) = {}

\* The call left dest alone: no error, the file system as it was, and no
\* call of RemoveAll or Symlink.
Untouched(call) ==
    /\ call.err = "ok"
    /\ call.fs = call.before
    /\ \A n \in 1..Len(call.ops) : call.ops[n] \notin {"RemoveAll", "Symlink"}

ErrorLines == SelectSeq(logged, LAMBDA l : l[1] = "error")
Markers == SelectSeq(logged, LAMBDA l : l = <<"Too many errors.">>)

\* C19: runTasks writes at most MaxErrors failure lines and at most one
\* marker, and it writes the marker exactly when at least MaxErrors tasks
\* failed: also when exactly MaxErrors failed and every failure has its own
\* line, never with fewer failures.
C19_MarkerIffCapReached ==
    (prog \in {"build", "runTasks"} /\ pc \in {"reported", "returned"}) =>
        /\ Len(ErrorLines) <= MaxErrors
        /\ Len(Markers) <= 1
        /\ Len(Markers) = 1 <=> Cardinality(Failed) >= MaxErrors
        /\ Len(logged) = Len(ErrorLines) + Len(Markers)

\* runTasks has reported on a list with exactly MaxErrors failures: every
\* failure has its line and the marker is there.
C19_Witness ==
    /\ prog = "runTasks" /\ pc = "reported"
    /\ Cardinality(Failed) = MaxErrors
    /\ Len(ErrorLines) = MaxErrors
    /\ Len(Markers) = 1

\* The jobs main has accounted for with wg.Add: none before wg.Add(1), the
\* linkAssets job from then on, every job after
\* wg.Add(len(articleJobs) + len(pageJobs)).
Accounted ==
    IF pc \in {"mkdir", "send_mkdir", "spawn", "add_link"} THEN 0
    ELSE IF pc \in {"send_link", "gen_articles", "send_article_err",
                    "gen_pages", "send_page_err", "add_jobs"} THEN 1
    ELSE Len(tasks)

\* The jobs whose worker has called wg.Done().
Done == {j \in JobIds : Err[j] # "unset" /\ j \notin undone}

\* C20: in main.go the WaitGroup counter is never negative (wg.Done never
\* panics), every job sent has been accounted for before, and the counter
\* is the number of accounted jobs for which wg.Done was not called yet.
C20_CounterNeverNegative ==
    prog = "main.go" =>
        /\ wg >= 0
        /\ Cardinality(Submitted) <= Accounted
        /\ wg = Accounted - Cardinality(Done)

\* In a run of main.go one job is done, one is executing and one has not
\* been sent yet: the counter is two.
C20_Witness ==
    /\ prog = "main.go" /\ pc = "send_jobs"
    /\ Cardinality(Done) = 1 /\ running # {}
    /\ wg = 2

====
